---- MODULE Spec2Model ----
(***************************************************************************)
(* Model of rtb.data.dataset.Dataset: the cached, marker-guarded           *)
(* construction of a dataset (download / process / save / load / time      *)
(* range / cutoffs / tasks) and the public operations of a constructed     *)
(* dataset (db_snapshot, db_train, db_val, make_train_table,               *)
(* make_val_table, make_test_table).                                       *)
(*                                                                         *)
(* Database, Table, Task and the window samplers are imported by           *)
(* dataset.py from rtb.data.* and rtb.utils; they are modelled from their  *)
(* documented contracts.                                                   *)
(***************************************************************************)
EXTENDS Integers, Sequences, FiniteSets, TLC

\* ------------------------------------------------------------------ bounds

\* Row timestamps are the multiples of 50 up to 50 * MaxTime, so that the
\* 80% and 90% points of every time range are whole numbers.
MaxTime == 2

\* Window sizes offered to the make_*_table calls are the multiples of 10
\* from -10 to 10 * MaxWin.
MaxWin == 3

\* ------------------------------------------------------------- data model

\* An absent optional value (Python None, or an attribute not yet set) and
\* a present one.
None == <<>>

Some(x) == <<x>>

Procs == {"p1", "p2"}

RowTimes == {50 * k : k \in 0..MaxTime}

\* Rows of the non-temporal table; every database holds all of them.
StaticRows == {"u1", "u2"}

\* A Database: one temporal table (a row is identified by its timestamp)
\* and one non-temporal table.
Databases == [events : SUBSET RowTimes, static : {StaticRows}]

\* The content of the processed/db directory: nothing yet, a save that was
\* begun and not finished, or a completely saved database.
NoFiles == [events |-> {}, static |-> {}]

PartialFiles == [events |-> {}, static |-> {"partial"}]

SetMin(S) == CHOOSE x \in S : \A y \in S : x <= y

SetMax(S) == CHOOSE x \in S : \A y \in S : x >= y

\* Database.time_cutoff: temporal rows with time <= time_stamp, non-temporal
\* tables unchanged.
TimeCutoff(database, time_stamp) ==
    [events |-> {t \in database.events : t <= time_stamp},
     static |-> database.static]

\* Database.get_time_range: the extrema over the temporal rows.
GetTimeRange(database) == <<SetMin(database.events), SetMax(database.events)>>

\* Database.get_time_range raises when there is no temporal row.
HasTimeRange(database) == database.events # {}

\* The tasks a subclass's get_tasks returns: task name -> target column.
TaskNames == {"churn"}

Tasks == [n \in TaskNames |-> [target_col |-> "label"]]

\* Task names a caller may pass; "unknown" is not a key of self.tasks.
CallerTaskNames == TaskNames \cup {"unknown"}

\* Cutoff policies of the subclass under construction: the default of
\* Dataset.get_cutoff_times, or an override.
Policies == {"default", "override_ordered", "override_swapped", "override_late"}

\* What a subclass override of get_cutoff_times may return: the code accepts
\* any pair.
OverrideCutoffs(policy, lo, hi) ==
    CASE policy = "override_ordered" -> <<lo, hi>>
      [] policy = "override_swapped" -> <<hi, lo>>
      [] policy = "override_late" -> <<lo, hi + 50>>

\* Mutant of DefaultCutoffs: the two fractions exchanged.
DefaultCutoffs_Swapped(lo, hi) ==
    <<lo + (9 * (hi - lo)) \div 10, lo + (8 * (hi - lo)) \div 10>>

\* Dataset.get_cutoff_times, lines 66-68: 80% and 90% of the time range.
DefaultCutoffs(lo, hi) ==
    <<lo + (8 * (hi - lo)) \div 10, lo + (9 * (hi - lo)) \div 10>>

GetCutoffTimes(policy, lo, hi) ==
    IF policy = "default" THEN DefaultCutoffs(lo, hi)
    ELSE OverrideCutoffs(policy, lo, hi)

\* ------------------------------------------------------------------ state

VARIABLES
    procResult,        \* the Database the subclass's process() builds
    cutoffPolicy,      \* the subclass's get_cutoff_times policy
    rawDone,           \* {root}/{name}/raw/done exists
    procDone,          \* {root}/{name}/processed/db/done exists
    diskDb,            \* content of {root}/{name}/processed/db
    pc,                \* per process: position in Dataset.__init__
    error,             \* per process: the step whose failure ended __init__
    db,                \* per process: local variable db of __init__
    _db,               \* per process: self._db
    min_time,          \* per process: self.min_time
    max_time,          \* per process: self.max_time
    train_cutoff_time, \* per process: self.train_cutoff_time
    val_cutoff_time,   \* per process: self.val_cutoff_time
    tasks,             \* per process: self.tasks
    called,            \* per process: external calls made by this __init__
    markersAtStart,    \* per process: both markers existed when __init__ began
    last               \* the public operation most recently performed

disk == <<rawDone, procDone, diskDb>>

subclass == <<procResult, cutoffPolicy>>

object == <<_db, min_time, max_time, train_cutoff_time, val_cutoff_time, tasks>>

vars == <<subclass, disk, pc, error, db, object, called, markersAtStart, last>>

NoCall == [op |-> "none"]

Init ==
    /\ procResult \in Databases
    /\ cutoffPolicy \in Policies
    /\ rawDone = FALSE
    /\ procDone = FALSE
    /\ diskDb = NoFiles
    /\ pc = [p \in Procs |-> "idle"]
    /\ error = [p \in Procs |-> "none"]
    /\ db = [p \in Procs |-> None]
    /\ _db = [p \in Procs |-> None]
    /\ min_time = [p \in Procs |-> None]
    /\ max_time = [p \in Procs |-> None]
    /\ train_cutoff_time = [p \in Procs |-> None]
    /\ val_cutoff_time = [p \in Procs |-> None]
    /\ tasks = [p \in Procs |-> None]
    /\ called = [p \in Procs |-> {}]
    /\ markersAtStart = [p \in Procs |-> FALSE]
    /\ last = NoCall

\* -------------------------------------------------- Dataset.__init__ steps

Constructing(p) == pc[p] \notin {"idle", "ready", "failed"}

\* Mutant of RawDoneExists: the raw marker is never found.
RawDoneExists_Never == FALSE

\* Line 26: Path(f"{path}/done").exists() for the raw directory.
RawDoneExists == rawDone

\* Mutant of ProcDoneExists: the processed marker is never found.
ProcDoneExists_Never == FALSE

\* Line 31: Path(f"{path}/done").exists() for the processed directory.
ProcDoneExists == procDone

Goto(p, label) == pc' = [pc EXCEPT ![p] = label]

Fail(p, step) ==
    /\ pc' = [pc EXCEPT ![p] = "failed"]
    /\ error' = [error EXCEPT ![p] = step]

Call(p, name) == called' = [called EXCEPT ![p] = @ \cup {name}]

\* Lines 19-26: a new Dataset object is constructed; the raw marker decides
\* whether download() runs.
Start(p) ==
    /\ ~Constructing(p)
    /\ Goto(p, IF RawDoneExists THEN "check_processed" ELSE "download")
    /\ error' = [error EXCEPT ![p] = "none"]
    /\ db' = [db EXCEPT ![p] = None]
    /\ _db' = [_db EXCEPT ![p] = None]
    /\ min_time' = [min_time EXCEPT ![p] = None]
    /\ max_time' = [max_time EXCEPT ![p] = None]
    /\ train_cutoff_time' = [train_cutoff_time EXCEPT ![p] = None]
    /\ val_cutoff_time' = [val_cutoff_time EXCEPT ![p] = None]
    /\ tasks' = [tasks EXCEPT ![p] = None]
    /\ called' = [called EXCEPT ![p] = {}]
    /\ markersAtStart' = [markersAtStart EXCEPT ![p] = rawDone /\ procDone]
    /\ last' = NoCall
    /\ UNCHANGED <<subclass, disk>>

\* Line 27: self.download(path) returns.
DownloadOk(p) ==
    /\ pc[p] = "download"
    /\ Goto(p, "touch_raw")
    /\ Call(p, "download")
    /\ last' = NoCall
    /\ UNCHANGED <<subclass, disk, error, db, object, markersAtStart>>

\* Mutant of DownloadFail: the raw marker is written although download()
\* raised.
DownloadFail_Marks(p) ==
    /\ pc[p] = "download"
    /\ Fail(p, "download")
    /\ Call(p, "download")
    /\ rawDone' = TRUE
    /\ last' = NoCall
    /\ UNCHANGED <<subclass, procDone, diskDb, db, object, markersAtStart>>

\* Line 27: self.download(path) raises.
DownloadFail(p) ==
    /\ pc[p] = "download"
    /\ Fail(p, "download")
    /\ Call(p, "download")
    /\ last' = NoCall
    /\ UNCHANGED <<subclass, disk, db, object, markersAtStart>>

\* Line 28: the raw marker is written.
TouchRaw(p) ==
    /\ pc[p] = "touch_raw"
    /\ rawDone' = TRUE
    /\ Goto(p, "check_processed")
    /\ last' = NoCall
    /\ UNCHANGED <<subclass, procDone, diskDb, error, db, object, called,
                   markersAtStart>>

\* Lines 30-31: the processed marker decides whether process() runs.
CheckProcessed(p) ==
    /\ pc[p] = "check_processed"
    /\ Goto(p, IF ProcDoneExists THEN "load" ELSE "process")
    /\ last' = NoCall
    /\ UNCHANGED <<subclass, disk, error, db, object, called, markersAtStart>>

\* Line 33: db = self.process() returns the database.
ProcessOk(p) ==
    /\ pc[p] = "process"
    /\ db' = [db EXCEPT ![p] = Some(procResult)]
    /\ Goto(p, "save")
    /\ Call(p, "process")
    /\ last' = NoCall
    /\ UNCHANGED <<subclass, disk, error, object, markersAtStart>>

\* Line 33: self.process() raises.
ProcessFail(p) ==
    /\ pc[p] = "process"
    /\ Fail(p, "process")
    /\ Call(p, "process")
    /\ last' = NoCall
    /\ UNCHANGED <<subclass, disk, db, object, markersAtStart>>

\* Line 42: db.save(path) starts writing the processed directory.
SaveBegin(p) ==
    /\ pc[p] = "save"
    /\ diskDb' = PartialFiles
    /\ Goto(p, "saving")
    /\ Call(p, "save")
    /\ last' = NoCall
    /\ UNCHANGED <<subclass, rawDone, procDone, error, db, object,
                   markersAtStart>>

\* Line 42: db.save(path) returns; the directory holds the whole database.
SaveOk(p) ==
    /\ pc[p] = "saving"
    /\ diskDb' = db[p][1]
    /\ Goto(p, "touch_processed")
    /\ last' = NoCall
    /\ UNCHANGED <<subclass, rawDone, procDone, error, db, object, called,
                   markersAtStart>>

\* Mutant of SaveFail: the processed marker is written although db.save
\* raised.
SaveFail_Marks(p) ==
    /\ pc[p] = "saving"
    /\ Fail(p, "save")
    /\ procDone' = TRUE
    /\ last' = NoCall
    /\ UNCHANGED <<subclass, rawDone, diskDb, db, object, called,
                   markersAtStart>>

\* Line 42: db.save(path) raises part-way; the partial files stay.
SaveFail(p) ==
    /\ pc[p] = "saving"
    /\ Fail(p, "save")
    /\ last' = NoCall
    /\ UNCHANGED <<subclass, disk, db, object, called, markersAtStart>>

\* Line 43: the processed marker is written.
TouchProcessed(p) ==
    /\ pc[p] = "touch_processed"
    /\ procDone' = TRUE
    /\ Goto(p, "load")
    /\ last' = NoCall
    /\ UNCHANGED <<subclass, rawDone, diskDb, error, db, object, called,
                   markersAtStart>>

\* Line 46: self._db = Database.load(path), of a completely saved database.
Load(p) ==
    /\ pc[p] = "load"
    /\ diskDb \in Databases
    /\ _db' = [_db EXCEPT ![p] = Some(diskDb)]
    /\ Goto(p, "time_range")
    /\ last' = NoCall
    /\ UNCHANGED <<subclass, disk, error, db, min_time, max_time,
                   train_cutoff_time, val_cutoff_time, tasks, called,
                   markersAtStart>>

\* Line 46, while another process's db.save has written only part of the
\* directory: what Database.load makes of it is not defined; it may return a
\* database with only some of the rows being saved.
LoadPartial(p) ==
    /\ pc[p] = "load"
    /\ diskDb = PartialFiles
    /\ \E loaded \in Databases :
         /\ loaded.events \subseteq procResult.events
         /\ loaded.events # procResult.events
         /\ _db' = [_db EXCEPT ![p] = Some(loaded)]
    /\ Goto(p, "time_range")
    /\ last' = NoCall
    /\ UNCHANGED <<subclass, disk, error, db, min_time, max_time,
                   train_cutoff_time, val_cutoff_time, tasks, called,
                   markersAtStart>>

\* Line 46, on a partly written directory: Database.load may also raise.
LoadFail(p) ==
    /\ pc[p] = "load"
    /\ diskDb = PartialFiles
    /\ Fail(p, "load")
    /\ last' = NoCall
    /\ UNCHANGED <<subclass, disk, db, object, called, markersAtStart>>

\* Line 51: self.min_time, self.max_time = self._db.get_time_range().
TimeRangeOk(p) ==
    /\ pc[p] = "time_range"
    /\ HasTimeRange(_db[p][1])
    /\ min_time' = [min_time EXCEPT ![p] = Some(GetTimeRange(_db[p][1])[1])]
    /\ max_time' = [max_time EXCEPT ![p] = Some(GetTimeRange(_db[p][1])[2])]
    /\ Goto(p, "cutoffs")
    /\ last' = NoCall
    /\ UNCHANGED <<subclass, disk, error, db, _db, train_cutoff_time,
                   val_cutoff_time, tasks, called, markersAtStart>>

\* Line 51: get_time_range raises (no temporal row).
TimeRangeFail(p) ==
    /\ pc[p] = "time_range"
    /\ ~HasTimeRange(_db[p][1])
    /\ Fail(p, "time_range")
    /\ last' = NoCall
    /\ UNCHANGED <<subclass, disk, db, object, called, markersAtStart>>

\* Line 52: the two cutoffs are stored as get_cutoff_times returns them.
Cutoffs(p) ==
    /\ pc[p] = "cutoffs"
    /\ LET c == GetCutoffTimes(cutoffPolicy, min_time[p][1], max_time[p][1])
       IN  /\ train_cutoff_time' = [train_cutoff_time EXCEPT ![p] = Some(c[1])]
           /\ val_cutoff_time' = [val_cutoff_time EXCEPT ![p] = Some(c[2])]
    /\ Goto(p, "tasks")
    /\ last' = NoCall
    /\ UNCHANGED <<subclass, disk, error, db, _db, min_time, max_time, tasks,
                   called, markersAtStart>>

\* Line 54: self.tasks = self.get_tasks() returns the task mapping.
TasksOk(p) ==
    /\ pc[p] = "tasks"
    /\ tasks' = [tasks EXCEPT ![p] = Some(Tasks)]
    /\ Goto(p, "ready")
    /\ last' = NoCall
    /\ UNCHANGED <<subclass, disk, error, db, _db, min_time, max_time,
                   train_cutoff_time, val_cutoff_time, called, markersAtStart>>

\* Mutant of TasksFail: the exception of get_tasks is swallowed and the
\* construction completes without tasks.
TasksFail_Swallowed(p) ==
    /\ pc[p] = "tasks"
    /\ Goto(p, "ready")
    /\ last' = NoCall
    /\ UNCHANGED <<subclass, disk, error, db, object, called, markersAtStart>>

\* Line 54: get_tasks raises (lines 56-60: not overridden).
TasksFail(p) ==
    /\ pc[p] = "tasks"
    /\ Fail(p, "tasks")
    /\ last' = NoCall
    /\ UNCHANGED <<subclass, disk, db, object, called, markersAtStart>>

\* ------------------------------------------------------ window samplers

\* rtb.utils.rolling_window_sampler: consecutive windows from start, each
\* window_size long, advancing by stride, until a window would end after
\* end; a trailing partial window is not emitted.
RECURSIVE RollingWindows(_, _, _, _)
RollingWindows(start, end, window_size, stride) ==
    IF start + window_size > end THEN <<>>
    ELSE <<<<start, start + window_size>>>>
         \o RollingWindows(start + stride, end, window_size, stride)

RollingWindowSampler(start, end, window_size, stride) ==
    IF window_size <= 0 \/ stride <= 0
    THEN [outcome |-> "InvalidParameter", windows |-> <<>>]
    ELSE [outcome |-> "ok",
          windows |-> RollingWindows(start, end, window_size, stride)]

\* rtb.utils.one_window_sampler: the one window starting at reference_time.
OneWindowSampler(reference_time, window_size) ==
    IF window_size <= 0
    THEN [outcome |-> "InvalidParameter", windows |-> <<>>]
    ELSE [outcome |-> "ok",
          windows |-> <<<<reference_time, reference_time + window_size>>>>]

\* ---------------------------------------------------------- Task and Table

\* Task.make_table: one row per window, labelled in the task's target column
\* by the number of events of the given database inside the window.
MakeTable(task, database, windows) ==
    LET columns == {"window_start", "window_end", task.target_col}
    IN  [columns |-> columns,
         rows |-> [i \in 1..Len(windows) |->
                     [c \in columns |->
                        CASE c = "window_start" -> windows[i][1]
                          [] c = "window_end" -> windows[i][2]
                          [] OTHER ->
                               Cardinality({t \in database.events :
                                   windows[i][1] <= t /\ t < windows[i][2]})]]]

\* Table.drop(columns=...): the explicit column-drop operation of a Table.
\* self is the receiver after the call, ret the value the call returns.
TableDrop(table, columns) ==
    LET kept == table.columns \ columns
    IN  [self |-> [columns |-> kept,
                   rows |-> [i \in DOMAIN table.rows |->
                               [c \in kept |-> table.rows[i][c]]]],
         ret |-> None]

\* ------------------------------------------------------- public operations

Raised(exception) ==
    [outcome |-> exception, database |-> None, mt_db |-> None,
     mt_windows |-> None, table |-> None]

ReturnedDatabase(database) ==
    [outcome |-> "ok", database |-> Some(database), mt_db |-> None,
     mt_windows |-> None, table |-> None]

\* A call that reached Task.make_table(mt_db, mt_windows) and returned table.
ReturnedTable(mt_db, mt_windows, table) ==
    [outcome |-> "ok", database |-> None, mt_db |-> Some(mt_db),
     mt_windows |-> Some(mt_windows), table |-> Some(table)]

\* Mutant of SnapshotAllowed: the assertion is gone.
SnapshotAllowed_Always(p, time_stamp) == TRUE

\* Line 95: assert time_stamp <= self.val_cutoff_time.
SnapshotAllowed(p, time_stamp) == time_stamp <= val_cutoff_time[p][1]

\* Lines 91-97: Dataset.db_snapshot.
DbSnapshot(p, time_stamp) ==
    IF SnapshotAllowed(p, time_stamp)
    THEN ReturnedDatabase(TimeCutoff(_db[p][1], time_stamp))
    ELSE Raised("AssertionError")

\* Mutant of DbTrain: the stored database is returned as it is.
DbTrain_Full(p) == ReturnedDatabase(_db[p][1])

\* Mutant of DbTrain: the snapshot is taken at val_cutoff_time.
DbTrain_AtValCutoff(p) == DbSnapshot(p, val_cutoff_time[p][1])

\* Lines 99-101: Dataset.db_train.
DbTrain(p) == DbSnapshot(p, train_cutoff_time[p][1])

\* Lines 103-105: Dataset.db_val.
DbVal(p) == DbSnapshot(p, val_cutoff_time[p][1])

\* Mutant of TrainWindows: a supplied window_size wins over supplied windows.
TrainWindows_PreferSize(p, window_size, time_window_df) ==
    IF window_size # None
    THEN RollingWindowSampler(min_time[p][1], train_cutoff_time[p][1],
                              window_size[1], window_size[1])
    ELSE IF time_window_df = None
    THEN [outcome |-> "AssertionError", windows |-> <<>>]
    ELSE [outcome |-> "ok", windows |-> time_window_df[1]]

\* Mutant of TrainWindows: the default windows run up to max_time.
TrainWindows_ToMaxTime(p, window_size, time_window_df) ==
    IF time_window_df # None
    THEN [outcome |-> "ok", windows |-> time_window_df[1]]
    ELSE IF window_size = None
    THEN [outcome |-> "AssertionError", windows |-> <<>>]
    ELSE RollingWindowSampler(min_time[p][1], max_time[p][1],
                              window_size[1], window_size[1])

\* Lines 119-127: the windows make_train_table uses.
TrainWindows(p, window_size, time_window_df) ==
    IF time_window_df # None
    THEN [outcome |-> "ok", windows |-> time_window_df[1]]
    ELSE IF window_size = None
    THEN [outcome |-> "AssertionError", windows |-> <<>>]
    ELSE RollingWindowSampler(min_time[p][1], train_cutoff_time[p][1],
                              window_size[1], window_size[1])

\* Mutant of ValWindows: the default window is built in place, without the
\* sampler and its check of window_size.
ValWindows_Inline(p, window_size, time_window_df) ==
    IF time_window_df # None
    THEN [outcome |-> "ok", windows |-> time_window_df[1]]
    ELSE IF window_size = None
    THEN [outcome |-> "AssertionError", windows |-> <<>>]
    ELSE [outcome |-> "ok",
          windows |-> <<<<train_cutoff_time[p][1],
                          train_cutoff_time[p][1] + window_size[1]>>>>]

\* Lines 144-150: the windows make_val_table uses.
ValWindows(p, window_size, time_window_df) ==
    IF time_window_df # None
    THEN [outcome |-> "ok", windows |-> time_window_df[1]]
    ELSE IF window_size = None
    THEN [outcome |-> "AssertionError", windows |-> <<>>]
    ELSE OneWindowSampler(train_cutoff_time[p][1], window_size[1])

\* Lines 159-162: the window make_test_table uses.
TestWindows(p, window_size) ==
    OneWindowSampler(val_cutoff_time[p][1], window_size)

\* Lines 129-130 and 152-153: task = self.tasks[task_name], then
\* task.make_table(<snapshot>, time_window_df); the snapshot property is
\* evaluated after the task lookup.
LookupAndMakeTable(p, task_name, snapshot, windows) ==
    IF task_name \notin DOMAIN tasks[p][1] THEN Raised("KeyError")
    ELSE IF snapshot.outcome # "ok" THEN Raised(snapshot.outcome)
    ELSE ReturnedTable(snapshot.database[1], windows,
                       MakeTable(tasks[p][1][task_name], snapshot.database[1],
                                 windows))

\* Lines 107-130: Dataset.make_train_table.
MakeTrainTable(p, task_name, window_size, time_window_df) ==
    LET w == TrainWindows(p, window_size, time_window_df)
    IN  IF w.outcome # "ok" THEN Raised(w.outcome)
        ELSE LookupAndMakeTable(p, task_name, DbTrain(p), w.windows)

\* Lines 132-153: Dataset.make_val_table.
MakeValTable(p, task_name, window_size, time_window_df) ==
    LET w == ValWindows(p, window_size, time_window_df)
    IN  IF w.outcome # "ok" THEN Raised(w.outcome)
        ELSE LookupAndMakeTable(p, task_name, DbVal(p), w.windows)

\* Mutant of HideLabel: the table is returned as Task.make_table built it.
HideLabel_Skipped(table, target_col) == table

\* Lines 165-168: table.drop(columns=[task.target_col]) is called for its
\* effect on table, its return value is not used, and table is returned.
HideLabel(table, target_col) == TableDrop(table, {target_col}).self

\* Mutant of TestDatabase: the test table is built on the validation snapshot.
TestDatabase_Snapshot(p) == TimeCutoff(_db[p][1], val_cutoff_time[p][1])

\* Line 163: the database make_test_table hands to Task.make_table.
TestDatabase(p) == _db[p][1]

\* Lines 155-168: Dataset.make_test_table.
MakeTestTable(p, task_name, window_size) ==
    IF task_name \notin DOMAIN tasks[p][1] THEN Raised("KeyError")
    ELSE LET task == tasks[p][1][task_name]
             w == TestWindows(p, window_size)
         IN  IF w.outcome # "ok" THEN Raised(w.outcome)
             ELSE ReturnedTable(TestDatabase(p), w.windows,
                      HideLabel(MakeTable(task, TestDatabase(p), w.windows),
                                task.target_col))

\* ---------------------------------------------------------- caller inputs

WindowSizes == {10 * k : k \in -1..MaxWin}

\* Windows a caller builds with a sampling strategy of its own; the second
\* set reaches past every cutoff.
CallerWindows ==
    {<<<<0, 10>>>>,
     <<<<0, 10>>, <<50 * MaxTime, 50 * MaxTime + 10>>>>}

OptionalWindowSizes == {None} \cup {Some(w) : w \in WindowSizes}

OptionalWindows == {None} \cup {Some(w) : w \in CallerWindows}

SnapshotTimes(p) ==
    RowTimes \cup {min_time[p][1] - 1, val_cutoff_time[p][1],
                   val_cutoff_time[p][1] + 1}

\* The record of a public operation: who called what with which arguments,
\* and what came of it.
Observed(op, p, task_name, window_size, time_window_df, time_stamp, r) ==
    [op |-> op, proc |-> p, task_name |-> task_name,
     window_size |-> window_size, time_window_df |-> time_window_df,
     time_stamp |-> time_stamp, outcome |-> r.outcome,
     database |-> r.database, mt_db |-> r.mt_db,
     mt_windows |-> r.mt_windows, table |-> r.table]

\* The public operations assign no attribute and touch no file.
ReadOnly == UNCHANGED <<subclass, disk, pc, error, db, object, called,
                        markersAtStart>>

\* The core is synchronous: an operation of a constructed dataset is called
\* once the previous one has returned.
Callable(p) == pc[p] = "ready" /\ last = NoCall

CallDbSnapshot(p) ==
    /\ Callable(p)
    /\ \E time_stamp \in SnapshotTimes(p) :
         last' = Observed("db_snapshot", p, "", None, None, Some(time_stamp),
                          DbSnapshot(p, time_stamp))
    /\ ReadOnly

CallDbTrain(p) ==
    /\ Callable(p)
    /\ last' = Observed("db_train", p, "", None, None, None, DbTrain(p))
    /\ ReadOnly

\* Mutant of CallDbVal: db_val keeps the snapshot in self._db.
CallDbVal_Stores(p) ==
    /\ Callable(p)
    /\ last' = Observed("db_val", p, "", None, None, None, DbVal(p))
    /\ _db' = [_db EXCEPT ![p] = DbVal(p).database]
    /\ UNCHANGED <<subclass, disk, pc, error, db, min_time, max_time,
                   train_cutoff_time, val_cutoff_time, tasks, called,
                   markersAtStart>>

CallDbVal(p) ==
    /\ Callable(p)
    /\ last' = Observed("db_val", p, "", None, None, None, DbVal(p))
    /\ ReadOnly

CallMakeTrainTable(p) ==
    /\ Callable(p)
    /\ \E task_name \in CallerTaskNames, window_size \in OptionalWindowSizes,
          time_window_df \in OptionalWindows :
         last' = Observed("make_train_table", p, task_name, window_size,
                          time_window_df, None,
                          MakeTrainTable(p, task_name, window_size,
                                         time_window_df))
    /\ ReadOnly

CallMakeValTable(p) ==
    /\ Callable(p)
    /\ \E task_name \in CallerTaskNames, window_size \in OptionalWindowSizes,
          time_window_df \in OptionalWindows :
         last' = Observed("make_val_table", p, task_name, window_size,
                          time_window_df, None,
                          MakeValTable(p, task_name, window_size,
                                       time_window_df))
    /\ ReadOnly

CallMakeTestTable(p) ==
    /\ Callable(p)
    /\ \E task_name \in CallerTaskNames, window_size \in WindowSizes :
         last' = Observed("make_test_table", p, task_name, Some(window_size),
                          None, None,
                          MakeTestTable(p, task_name, window_size))
    /\ ReadOnly

\* The operation returns to its caller; its record is dropped.
Return ==
    /\ last # NoCall
    /\ last' = NoCall
    /\ ReadOnly

PublicOp(p) ==
    \/ CallDbSnapshot(p) \/ CallDbTrain(p) \/ CallDbVal(p)
    \/ CallMakeTrainTable(p) \/ CallMakeValTable(p) \/ CallMakeTestTable(p)

\* One construction at a time: __init__ is synchronous, and a sequence of
\* constructions runs each to its end before the next begins.
SeqStart(p) ==
    /\ \A q \in Procs : ~Constructing(q)
    /\ Start(p)

InitStep(p) ==
    \/ DownloadOk(p) \/ DownloadFail(p) \/ TouchRaw(p) \/ CheckProcessed(p)
    \/ ProcessOk(p) \/ ProcessFail(p) \/ SaveBegin(p) \/ SaveOk(p)
    \/ SaveFail(p) \/ TouchProcessed(p) \/ Load(p) \/ TimeRangeOk(p)
    \/ TimeRangeFail(p) \/ Cutoffs(p) \/ TasksOk(p) \/ TasksFail(p)

Next ==
    \/ \E p \in Procs : SeqStart(p) \/ InitStep(p) \/ PublicOp(p)
    \/ Return

Spec == Init /\ [][Next]_vars

\* Several processes construct the Dataset against one root at the same
\* time: the steps of their constructions interleave freely.
NextConcurrent ==
    \E p \in Procs : Start(p) \/ InitStep(p) \/ LoadPartial(p) \/ LoadFail(p)

SpecConcurrent == Init /\ [][NextConcurrent]_vars

\* ----------------------------------------------------------------- claims

\* Attributes of the dataset the recorded operation was called on.
Self == last.proc

SelfDb == _db[Self][1]

SelfMin == min_time[Self][1]

SelfMax == max_time[Self][1]

SelfTrain == train_cutoff_time[Self][1]

SelfVal == val_cutoff_time[Self][1]

Called(op) == last.op = op

ReachedMakeTable == last.mt_db # None

KnownTask == last.task_name \in DOMAIN tasks[Self][1]

\* C1: the table make_test_table returns has no target column, neither in
\* its column set nor in any of its rows, for every task and window size.
C1_TestTableHasNoTarget ==
    (Called("make_test_table") /\ last.outcome = "ok") =>
        LET target == tasks[Self][1][last.task_name].target_col
            table == last.table[1]
        IN  /\ target \notin table.columns
            /\ \A i \in DOMAIN table.rows : target \notin DOMAIN table.rows[i]

\* C1 witness: make_test_table returned a one-row table that still has its
\* window columns.
C1_Witness ==
    /\ Called("make_test_table")
    /\ last.outcome = "ok"
    /\ Len(last.table[1].rows) = 1
    /\ last.table[1].columns = {"window_start", "window_end"}

\* C2: the database make_train_table (make_val_table) hands to
\* Task.make_table has no temporal row after train_cutoff_time
\* (val_cutoff_time), with default or caller-supplied windows.
C2_NoRowBeyondCutoff ==
    /\ (Called("make_train_table") /\ ReachedMakeTable) =>
           \A t \in last.mt_db[1].events : t <= SelfTrain
    /\ (Called("make_val_table") /\ ReachedMakeTable) =>
           \A t \in last.mt_db[1].events : t <= SelfVal

\* C2 witness: make_train_table reached Task.make_table with caller-supplied
\* windows on a dataset that holds rows after train_cutoff_time.
C2_Witness ==
    /\ Called("make_train_table")
    /\ ReachedMakeTable
    /\ last.time_window_df # None
    /\ \E t \in SelfDb.events : t > SelfTrain
    /\ last.mt_db[1].events # {}

\* C3: db_snapshot(t) with t > val_cutoff_time fails and returns nothing,
\* and no database returned by db_snapshot, db_train or db_val has a
\* temporal row after val_cutoff_time.
C3_SnapshotBounded ==
    Called("db_snapshot") \/ Called("db_train") \/ Called("db_val") =>
        /\ (Called("db_snapshot") /\ last.time_stamp[1] > SelfVal) =>
               (last.outcome = "AssertionError" /\ last.database = None)
        /\ last.database # None =>
               \A t \in last.database[1].events : t <= SelfVal

\* C3 witness: db_snapshot was refused a time stamp after val_cutoff_time on
\* a dataset that holds rows after val_cutoff_time.
C3_Witness ==
    /\ Called("db_snapshot")
    /\ last.time_stamp[1] > SelfVal
    /\ last.outcome = "AssertionError"
    /\ \E t \in SelfDb.events : t > SelfVal /\ t <= last.time_stamp[1]

CutoffsOrdered(p) ==
    /\ min_time[p][1] <= train_cutoff_time[p][1]
    /\ train_cutoff_time[p][1] <= val_cutoff_time[p][1]
    /\ val_cutoff_time[p][1] <= max_time[p][1]

\* C4 as claimed: every READY dataset, whatever its cutoff policy, has
\* min_time <= train_cutoff_time <= val_cutoff_time <= max_time.
C4_Original == \A p \in Procs : pc[p] = "ready" => CutoffsOrdered(p)

\* C4 as amended: every READY dataset with the default cutoff policy has
\* min_time <= train_cutoff_time <= val_cutoff_time <= max_time.
C4_DefaultCutoffsOrdered ==
    \A p \in Procs :
        (pc[p] = "ready" /\ cutoffPolicy = "default") => CutoffsOrdered(p)

\* C4 witness: a READY dataset with the default policy and four distinct
\* times.
C4_Witness ==
    \E p \in Procs :
        /\ pc[p] = "ready"
        /\ cutoffPolicy = "default"
        /\ min_time[p][1] < train_cutoff_time[p][1]
        /\ train_cutoff_time[p][1] < val_cutoff_time[p][1]
        /\ val_cutoff_time[p][1] < max_time[p][1]

Overlap(a, b) == a[1] < b[2] /\ b[1] < a[2]

PositiveWindowSizes == {w \in WindowSizes : w > 0}

\* C5 as claimed, for datasets with the default cutoff policy and a time
\* range that is not a single instant: for every positive window size the default train, validation and test windows are
\* pairwise non-overlapping; train windows end by train_cutoff_time, the
\* validation window ends by val_cutoff_time, the test window starts at
\* val_cutoff_time.
C5_Original ==
    \A p \in Procs : \A w \in PositiveWindowSizes :
        (/\ pc[p] = "ready"
         /\ cutoffPolicy = "default"
         /\ min_time[p][1] < max_time[p][1]) =>
            LET train == TrainWindows(p, Some(w), None).windows
                val == ValWindows(p, Some(w), None).windows[1]
                test == TestWindows(p, w).windows[1]
            IN  /\ \A i \in DOMAIN train :
                     /\ train[i][2] <= train_cutoff_time[p][1]
                     /\ ~Overlap(train[i], val)
                     /\ ~Overlap(train[i], test)
                /\ val[2] <= val_cutoff_time[p][1]
                /\ test[1] = val_cutoff_time[p][1]
                /\ ~Overlap(val, test)

\* C6: a construction that begins when both done markers exist calls
\* neither download() nor process() nor db.save.
C6_NoWorkOnceMarked ==
    \A p \in Procs : markersAtStart[p] => called[p] = {}

\* C6 witness: a construction that began with both markers present has
\* reached READY while an earlier dataset of the same root is still held.
C6_Witness ==
    \E p, q \in Procs :
        /\ p # q
        /\ markersAtStart[p]
        /\ pc[p] = "ready"
        /\ pc[q] = "ready"

\* C7: a failing download() leaves the raw marker absent, a failing
\* process() or db.save() leaves the processed marker absent, a marker is
\* written only by the construction whose stage returned, and a construction
\* runs download() (process()) exactly when the raw (processed) marker is
\* absent.
C7_MarkerOnlyAfterSuccess ==
    [][\A p \in Procs :
         /\ (pc[p] = "download" /\ pc'[p] = "failed") => ~rawDone'
         /\ (pc[p] \in {"process", "save", "saving"} /\ pc'[p] = "failed") =>
                ~procDone'
         /\ (~rawDone /\ rawDone' /\ pc'[p] # pc[p]) =>
                ("download" \in called[p] /\ pc'[p] # "failed")
         /\ (~procDone /\ procDone' /\ pc'[p] # pc[p]) =>
                ({"process", "save"} \subseteq called[p]
                 /\ diskDb = db[p][1] /\ pc'[p] # "failed")
         /\ (~Constructing(p) /\ pc'[p] # pc[p]) =>
                (pc'[p] = "download" <=> ~rawDone)
         /\ (pc[p] = "check_processed" /\ pc'[p] # pc[p]) =>
                (pc'[p] = "process" <=> ~procDone)
      ]_vars

\* C7 witness: after a construction failed in process(), the next one skips
\* download() (its marker exists) and is running process() again.
C7_Witness ==
    \E p, q \in Procs :
        /\ p # q
        /\ pc[p] = "failed"
        /\ error[p] \in {"process", "save"}
        /\ pc[q] = "process"
        /\ rawDone
        /\ ~procDone
        /\ called[q] = {}

TrainOrVal == Called("make_train_table") \/ Called("make_val_table")

NeitherSupplied == last.window_size = None /\ last.time_window_df = None

BothSupplied == last.window_size # None /\ last.time_window_df # None

\* C8 as claimed: make_train_table and make_val_table fail, without calling
\* Task.make_table, when neither or both of window_size and time_window_df
\* are supplied.
C8_Original ==
    (TrainOrVal /\ (NeitherSupplied \/ BothSupplied)) =>
        (last.outcome # "ok" /\ ~ReachedMakeTable)

\* C8 as amended: a call that supplies neither fails the assertion without
\* calling Task.make_table; a call that supplies both is not refused:
\* window_size is ignored and Task.make_table receives the supplied
\* time_window_df, unless the task name is unknown or db_train is refused.
C8_NeitherFailsBothUsesWindows ==
    TrainOrVal =>
        /\ NeitherSupplied =>
               (last.outcome = "AssertionError" /\ ~ReachedMakeTable)
        /\ BothSupplied =>
               IF KnownTask /\ (Called("make_val_table") \/ SelfTrain <= SelfVal)
               THEN /\ last.outcome = "ok"
                    /\ last.mt_windows = last.time_window_df
               ELSE /\ last.outcome \in {"KeyError", "AssertionError"}
                    /\ ~ReachedMakeTable

\* C8 witness: make_train_table was given both arguments, with a window
\* size the default sampler would refuse, and passed the supplied windows on.
C8_Witness ==
    /\ Called("make_train_table")
    /\ BothSupplied
    /\ last.window_size[1] <= 0
    /\ last.outcome = "ok"
    /\ last.mt_windows = last.time_window_df

\* C9: make_train_table with only window_size = w > 0 passes Task.make_table
\* the windows (min_time + k*w, min_time + (k+1)*w) for
\* k = 0 .. (train_cutoff_time - min_time) \div w - 1 and no other; over
\* [0, 100] with w = 20 these are the 4 windows over [0, 80].
C9_TrainWindowsExact ==
    (/\ Called("make_train_table")
     /\ last.time_window_df = None
     /\ last.window_size # None
     /\ last.window_size[1] > 0) =>
        LET w == last.window_size[1]
            n == (SelfTrain - SelfMin) \div w
        IN  /\ (KnownTask /\ SelfTrain <= SelfVal) => ReachedMakeTable
            /\ ReachedMakeTable =>
                   /\ last.mt_windows[1] =
                          [k \in 1..n |->
                              <<SelfMin + (k - 1) * w, SelfMin + k * w>>]
                   /\ \A k \in 1..n : last.mt_windows[1][k][2] <= SelfTrain
            /\ (ReachedMakeTable /\ SelfMin = 0 /\ SelfMax = 100
                /\ cutoffPolicy = "default" /\ w = 20) =>
                   last.mt_windows[1] =
                       <<<<0, 20>>, <<20, 40>>, <<40, 60>>, <<60, 80>>>>

\* C9 witness: default train windows were passed on and a trailing partial
\* window was dropped.
C9_Witness ==
    /\ Called("make_train_table")
    /\ last.time_window_df = None
    /\ ReachedMakeTable
    /\ Len(last.mt_windows[1]) >= 2
    /\ last.mt_windows[1][Len(last.mt_windows[1])][2] < SelfTrain

\* C10: with only window_size = w > 0, make_val_table passes the one window
\* (train_cutoff_time, train_cutoff_time + w) and the snapshot at
\* val_cutoff_time; make_test_table passes the one window
\* (val_cutoff_time, val_cutoff_time + w) and the full database.
C10_ValAndTestArguments ==
    /\ (/\ Called("make_val_table")
        /\ last.time_window_df = None
        /\ last.window_size # None
        /\ last.window_size[1] > 0) =>
           /\ KnownTask => ReachedMakeTable
           /\ ReachedMakeTable =>
                  /\ last.mt_windows[1] =
                         <<<<SelfTrain, SelfTrain + last.window_size[1]>>>>
                  /\ last.mt_db[1].events = {t \in SelfDb.events : t <= SelfVal}
                  /\ last.mt_db[1].static = SelfDb.static
    /\ (Called("make_test_table") /\ last.window_size[1] > 0) =>
           /\ KnownTask => ReachedMakeTable
           /\ ReachedMakeTable =>
                  /\ last.mt_windows[1] =
                         <<<<SelfVal, SelfVal + last.window_size[1]>>>>
                  /\ last.mt_db[1] = SelfDb

\* C10 witness: make_test_table passed on a database with rows after
\* val_cutoff_time.
C10_Witness ==
    /\ Called("make_test_table")
    /\ ReachedMakeTable
    /\ \E t \in last.mt_db[1].events : t > SelfVal

\* A make_*_table call that relies on the default sampler with a window size
\* that is not positive.
DefaultSamplerNonPositive ==
    /\ \/ TrainOrVal /\ last.time_window_df = None /\ last.window_size # None
       \/ Called("make_test_table")
    /\ last.window_size[1] <= 0

\* C11 as claimed: a make_train_table, make_val_table or make_test_table
\* request that uses the default sampler with window_size <= 0 fails with an
\* InvalidParameter error and returns no table.
C11_Original ==
    DefaultSamplerNonPositive =>
        (last.outcome = "InvalidParameter" /\ last.table = None)

\* C11 as amended: such a request fails, Task.make_table is not called and
\* no table is returned; the error is InvalidParameter, except that
\* make_test_table with an unknown task name fails with KeyError, its task
\* lookup coming before the sampler.
C11_NonPositiveWindowFails ==
    DefaultSamplerNonPositive =>
        /\ last.outcome # "ok"
        /\ ~ReachedMakeTable
        /\ last.table = None
        /\ last.outcome =
               IF Called("make_test_table") /\ ~KnownTask
               THEN "KeyError" ELSE "InvalidParameter"

\* C11 witness: make_val_table with a known task and window_size = 0 was
\* refused with InvalidParameter.
C11_Witness ==
    /\ Called("make_val_table")
    /\ DefaultSamplerNonPositive
    /\ KnownTask
    /\ last.window_size[1] = 0
    /\ last.outcome = "InvalidParameter"

\* The time stamp of the recorded snapshot operation.
SnapshotTime ==
    CASE Called("db_snapshot") -> last.time_stamp[1]
      [] Called("db_train") -> SelfTrain
      [] Called("db_val") -> SelfVal

\* C12: for T1 <= T2 <= val_cutoff_time the temporal rows of db_snapshot(T1)
\* are among those of db_snapshot(T2) and the non-temporal tables are the
\* same; a db_train that is returned is within db_val.
C12_SnapshotsMonotone ==
    ((Called("db_snapshot") \/ Called("db_train") \/ Called("db_val"))
     /\ last.outcome = "ok") =>
        /\ \A T2 \in SnapshotTimes(Self) \cup {SelfTrain} :
               (SnapshotTime <= T2 /\ T2 <= SelfVal) =>
                   LET later == DbSnapshot(Self, T2)
                   IN  /\ later.outcome = "ok"
                       /\ last.database[1].events \subseteq
                              later.database[1].events
                       /\ last.database[1].static = later.database[1].static
        /\ Called("db_train") =>
               /\ DbVal(Self).outcome = "ok"
               /\ last.database[1].events \subseteq DbVal(Self).database[1].events
               /\ last.database[1].static = DbVal(Self).database[1].static

\* C12 witness: db_train returned some temporal rows, and db_val has more.
C12_Witness ==
    /\ Called("db_train")
    /\ last.outcome = "ok"
    /\ last.database[1].events # {}
    /\ last.database[1].events # DbVal(Self).database[1].events

\* The step that may follow each step of a construction that goes on.
Successors(label) ==
    CASE label = "download" -> {"touch_raw"}
      [] label = "touch_raw" -> {"check_processed"}
      [] label = "check_processed" -> {"process", "load"}
      [] label = "process" -> {"save"}
      [] label = "save" -> {"saving"}
      [] label = "saving" -> {"touch_processed"}
      [] label = "touch_processed" -> {"load"}
      [] label = "load" -> {"time_range"}
      [] label = "time_range" -> {"cutoffs"}
      [] label = "cutoffs" -> {"tasks"}
      [] label = "tasks" -> {"ready"}
      [] OTHER -> {"download", "check_processed"}

\* C13: within one construction the steps follow the order download, raw
\* marker, process, save, processed marker, load, time range, cutoffs,
\* tasks; download, process and save are called at most once; a failure ends
\* the construction with the later attributes unset; READY is entered only
\* from the tasks step, with database, time range, cutoffs and tasks set.
C13_StepsInOrder ==
    /\ [][\A p \in Procs :
            pc'[p] # pc[p] =>
                /\ pc'[p] \in Successors(pc[p])
                       \cup (IF Constructing(p) THEN {"failed"} ELSE {})
                /\ \A c \in {"download", "process", "save"} :
                       (Constructing(p) /\ c \in called'[p] \ called[p]) =>
                           pc[p] = c
         ]_vars
    /\ [](\A p \in Procs :
            /\ pc[p] = "ready" =>
                   /\ _db[p] # None /\ min_time[p] # None
                   /\ max_time[p] # None /\ train_cutoff_time[p] # None
                   /\ val_cutoff_time[p] # None /\ tasks[p] # None
            /\ pc[p] = "failed" =>
                   /\ tasks[p] = None
                   /\ error[p] # "tasks" =>
                          (min_time[p] = None /\ train_cutoff_time[p] = None)
                   /\ error[p] \notin {"tasks", "time_range"} => _db[p] = None)

\* C13 witness: a construction loaded the database and failed at the time
\* range, leaving time range, cutoffs and tasks unset.
C13_Witness ==
    \E p \in Procs :
        /\ pc[p] = "failed"
        /\ error[p] = "time_range"
        /\ _db[p] # None
        /\ min_time[p] = None
        /\ "save" \in called[p]

\* C14: with concurrent constructions a process enters download() or
\* process() whenever the marker is absent at its check, also while another
\* process has run the same stage and not yet written the marker; only a
\* written marker keeps it out. Checked under SpecConcurrent.
C14_OnlyWrittenMarkerGuards ==
    [][\A p \in Procs :
         /\ (~Constructing(p) /\ pc'[p] # pc[p]) =>
                (pc'[p] = "download" <=> ~rawDone)
         /\ (pc[p] = "check_processed" /\ pc'[p] # pc[p]) =>
                (pc'[p] = "process" <=> ~procDone)
         /\ (pc[p] = "check_processed" /\ pc'[p] = "process") =>
                \A q \in Procs \ {p} :
                    (Constructing(q) /\ "process" \in called[q]) =>
                        pc[q] \in {"save", "saving", "touch_processed"}
      ]_vars

\* C14 witness: two processes have both passed the marker checks and have
\* both called download() and process(); neither has saved yet.
C14_Witness ==
    \E p, q \in Procs :
        /\ p # q
        /\ pc[p] = "save"
        /\ pc[q] = "save"
        /\ called[p] = {"download", "process"}
        /\ called[q] = {"download", "process"}
        /\ ~procDone

\* C15: a step that performs db_snapshot, db_train, db_val, make_train_table,
\* make_val_table or make_test_table leaves the stored database, the time
\* range, both cutoffs, the task mapping and the files on disk as they were,
\* for every dataset of the root.
C15_PublicOpsChangeNothing ==
    [][(last' # NoCall /\ last' # last) =>
          /\ last'.op \in {"db_snapshot", "db_train", "db_val",
                           "make_train_table", "make_val_table",
                           "make_test_table"}
          /\ UNCHANGED <<_db, min_time, max_time, train_cutoff_time,
                         val_cutoff_time, tasks, rawDone, procDone, diskDb>>
      ]_vars

\* C15 witness: make_test_table returned a table with its label dropped, and
\* the dataset still holds the whole database that process() built, rows
\* after val_cutoff_time included.
C15_Witness ==
    /\ Called("make_test_table")
    /\ last.outcome = "ok"
    /\ SelfDb = procResult
    /\ diskDb = procResult
    /\ \E t \in SelfDb.events : t > SelfVal
    /\ rawDone /\ procDone

\* C16: with constructions run one after another, a process is at
\* Database.load only when the processed marker exists, the marker exists
\* only when the directory holds the completely saved database that
\* process() returned, and every database a dataset holds is that one.
C16_LoadsOnlyCompleteSave ==
    /\ procDone => (diskDb \in Databases /\ diskDb = procResult)
    /\ \A p \in Procs :
         /\ pc[p] = "load" => procDone
         /\ _db[p] # None => (procDone /\ _db[p][1] = procResult)

\* C16 witness: after a construction whose db.save failed part-way, a later
\* construction processed and saved again and is READY with the database
\* process() returned.
C16_Witness ==
    \E p, q \in Procs :
        /\ pc[p] = "failed"
        /\ error[p] = "save"
        /\ pc[q] = "ready"
        /\ {"process", "save"} \subseteq called[q]
        /\ _db[q] = Some(procResult)

\* C17 as claimed: with concurrent constructions no process executes
\* Database.load while another process is between the start of its db.save
\* and its write of the processed marker. Checked under SpecConcurrent.
C17_Original ==
    [][\A p, q \in Procs :
         (p # q /\ pc[p] = "load" /\ pc'[p] # "load") =>
             pc[q] \notin {"saving", "touch_processed"}
      ]_vars

====
